---- MODULE Spec2Model ----
(***************************************************************************)
(* A model of keikan's src/render.rs: the sphere-marching solver           *)
(* (hit_march), the nearest-hit solver (hit_trace), the dispatcher         *)
(* (cast_ray) and the recursive shading integrator (color).                *)
(*                                                                         *)
(* Numbers.  f64 distances and coordinates are fixed-point integers with   *)
(* Unit steps per 1.0, so that EPSILON = 0.001 is two steps and a distance *)
(* can differ from another by less than EPSILON.  Colours and the          *)
(* material weights are exact rationals <<n, d>> in lowest terms.  A Vec3  *)
(* is one coordinate: the scenes are laid out along the x axis (half-space *)
(* solids facing the ray, planes parallel to it), and the radiance         *)
(* arithmetic of color is component-wise, so one component is modelled.    *)
(*                                                                         *)
(* Two specifications share the variables:                                 *)
(*   Spec       one call chain of color over a concrete scene, with the    *)
(*              loops of hit_march and hit_trace unrolled step by step;    *)
(*   SpecShade  the whole call tree of color with its call stack, the      *)
(*              outcome of every cast_ray drawn from the scene's palette.  *)
(***************************************************************************)
EXTENDS Integers, Sequences, FiniteSets

VARIABLES
    march_objs,  \* scene.march: the ordered Marchables
    trace_objs,  \* scene.trace: the ordered Traceables
    sky,         \* the material of CastResult::worst()
    ray,         \* the ray of the current call of color
    bounce,      \* color's parameter bounce
    samples,     \* color's parameter samples
    pc,          \* position of the current call: march, trace, cast, color, done
    step,        \* hit_march: loop counter
    depth,       \* hit_march: accumulated depth
    march,       \* cast_ray: result of hit_march
    ti,          \* hit_trace: index of the next object
    best,        \* hit_trace: best candidate so far
    trace,       \* cast_ray: result of hit_trace
    result,      \* color: the CastResult cast_ray returned
    ret,         \* the value the innermost call of color returned
    stack,       \* the calls of color that are waiting for this one
    palette,     \* SpecShade: the materials of the scene's objects
    frames,      \* SpecShade: call stack of color
    call,        \* SpecShade: the call about to be made
    retv,        \* SpecShade: value returned by the call that just ended
    spc          \* SpecShade: call, ret, done

vars == <<march_objs, trace_objs, sky, ray, bounce, samples, pc, step, depth,
          march, ti, best, trace, result, ret, stack,
          palette, frames, call, retv, spc>>

solveVars == <<march_objs, trace_objs, sky, ray, bounce, samples, pc, step,
               depth, march, ti, best, trace, result, ret, stack>>

shadeVars == <<palette, frames, call, retv, spc>>

----------------------------------------------------------------------------
(* Bounds of the model *)

MaxMarch == 2     \* Marchables in a scene
MaxTrace == 2     \* Traceables in a scene
MaxBudget == 3    \* largest bounce + samples of the outermost call of color
MaxPalette == 2   \* SpecShade: materials in a scene

(* Program constants *)

Unit == 2000                 \* fixed-point steps per 1.0
MAX_STEPS == 128
MAX_DEPTH == 512 * Unit
EPSILON == Unit \div 1000
F64_MAX == 1000000 * Unit    \* f64::MAX: above every distance a ray reaches

----------------------------------------------------------------------------
(* Exact rationals <<n, d>>, d > 0, in lowest terms; NaN is <<0, 0>> *)

Abs(x) == IF x < 0 THEN -x ELSE x

Sgn(x) == IF x < 0 THEN -1 ELSE IF x > 0 THEN 1 ELSE 0

RECURSIVE Gcd(_, _)
Gcd(a, b) == IF b = 0 THEN a ELSE Gcd(b, a % b)

NaN == <<0, 0>>

Q(n, d) ==
    LET g == Gcd(Abs(n), d)
    IN  IF d = 0 THEN NaN
        ELSE IF n = 0 THEN <<0, 1>>
        ELSE <<n \div g, d \div g>>

Zero == <<0, 1>>
One == <<1, 1>>

\* a NaN operand has d = 0, and so has the result
QAdd(a, b) == Q(a[1] * b[2] + b[1] * a[2], a[2] * b[2])
QSub(a, b) == Q(a[1] * b[2] - b[1] * a[2], a[2] * b[2])
QMul(a, b) == Q(a[1] * b[1], a[2] * b[2])

\* a <= b, false of NaN
QLeq(a, b) == a # NaN /\ b # NaN /\ a[1] * b[2] <= b[1] * a[2]

\* f64::max
QMax(a, b) == IF a = NaN THEN b ELSE IF b = NaN THEN a ELSE IF QLeq(a, b) THEN b ELSE a

\* v / (n as f64); the only division by 0.0 divides the zero vector: NaN
QDivN(a, n) == Q(a[1], a[2] * n)

----------------------------------------------------------------------------
(* Materials *)

Mat(c, e, m, r, t, s) ==
    [color |-> c, emission |-> e, metallic |-> m, roughness |-> r,
     transmission |-> t, specular |-> s]

blank == Mat(Zero, Zero, Zero, Zero, Zero, Zero)

matte == Mat(Q(1, 2), Zero, Zero, One, Zero, Zero)
white == Mat(One, Zero, Zero, One, Zero, Zero)
bright == Mat(Q(2, 1), Zero, Zero, One, Zero, Zero)
polished == Mat(One, Zero, Zero, Zero, Zero, Zero)
mirror == Mat(One, Zero, Zero, Zero, Zero, One)
metal == Mat(Q(1, 2), Zero, One, Q(1, 2), Zero, Zero)
lamp == Mat(One, Q(2, 1), Zero, One, Zero, Zero)

\* Material::sky(): a sky of radiance 3/2, and the skies SpecShade draws from
overcast == Mat(Q(1, 2), Q(3, 1), Zero, Zero, Zero, Zero)

SkyMaterials == {overcast, Mat(One, One, Zero, Zero, Zero, Zero)}

----------------------------------------------------------------------------
(* Rays and cast results *)

Ray(o, d) == [origin |-> o, direction |-> d]

point_at(r, t) == r.origin + r.direction * t

\* Ray::through(a, b): from a towards b; the vector b - a is given
through(a, v) == Ray(a, Sgn(v))

CastResult(h, d, n, m) == [hit |-> h, distance |-> d, normal |-> n, material |-> m]

worst == CastResult(FALSE, F64_MAX, 0, sky)

----------------------------------------------------------------------------
(* The objects of a scene *)

Solid(a, f, m) == [kind |-> "solid", at |-> a, face |-> f, h |-> 0, mat |-> m]
Rail(hh, m) == [kind |-> "rail", at |-> 0, face |-> 0, h |-> hh, mat |-> m]

\* object.march(point): a half-space with outward normal face, or a plane
\* parallel to the axis at distance h
ObjMarch(o, p) == IF o.kind = "solid" THEN o.face * (p - o.at) ELSE o.h

Wall(a, nn, m) == [kind |-> "wall", at |-> a, n |-> nn, mat |-> m]
Off(m) == [kind |-> "off", at |-> 0, n |-> 1, mat |-> m]

\* object.trace(ray): (hit, distance, normal); a wall across the axis is
\* met at a signed distance, an object off the axis is not met and its
\* distance and normal mean nothing
ObjTrace(o, r) ==
    IF o.kind = "wall"
    THEN <<TRUE, (o.at - r.origin) * r.direction, o.n>>
    ELSE <<FALSE, Unit, o.n>>

MarchCatalog ==
    << Solid(4 * Unit, -1, matte),
       Solid(4 * Unit, -1, mirror),
       Solid(-3 * Unit, 1, white),
       Rail(300 * Unit, metal),
       Solid(900 * Unit, -1, polished) >>

TraceCatalog ==
    << Wall(4 * Unit, -1, lamp),
       Wall(4 * Unit, 1, metal),
       Wall(4 * Unit + 1, -1, white),
       Wall(EPSILON, -1, matte),
       Off(white) >>

RECURSIVE Pick(_, _, _)
\* the subsequence of cat at the indices in S, from index i on
Pick(cat, S, i) ==
    IF i > Len(cat) THEN <<>>
    ELSE IF i \in S THEN <<cat[i]>> \o Pick(cat, S, i + 1)
    ELSE Pick(cat, S, i + 1)

SubSeqs(cat, n) ==
    { Pick(cat, S, 1) : S \in { T \in SUBSET (1..Len(cat)) : Cardinality(T) <= n } }

\* the parameters bounce and samples of the outermost call of color
Budgets ==
    { c \in [bounce : 0..MaxBudget, samples : 0..MaxBudget] :
        c.bounce + c.samples <= MaxBudget }

----------------------------------------------------------------------------
(* hit_march *)

RECURSIVE sdf_loop_strict(_, _, _, _)
\* sdf with distance < min: the first object at the least distance is kept
sdf_loop_strict(objs, point, i, acc) ==
    IF i > Len(objs) THEN acc
    ELSE LET distance == ObjMarch(objs[i], point)
         IN  IF distance < acc[1]
             THEN sdf_loop_strict(objs, point, i + 1, <<distance, objs[i].mat>>)
             ELSE sdf_loop_strict(objs, point, i + 1, acc)

RECURSIVE sdf_loop(_, _, _, _)
\* the closure sdf: the loop over march.iter() from object i on, with the
\* running <<min, mat>> in acc
sdf_loop(objs, point, i, acc) ==
    IF i > Len(objs) THEN acc
    ELSE LET distance == ObjMarch(objs[i], point)
         IN  IF distance <= acc[1]
             THEN sdf_loop(objs, point, i + 1, <<distance, objs[i].mat>>)
             ELSE sdf_loop(objs, point, i + 1, acc)

sdf(objs, point) == sdf_loop(objs, point, 1, <<F64_MAX, blank>>)

\* the closure normal: central differences, then unit(); 0 stands for the
\* NaN vector that unit() makes of the zero vector
normal(objs, p) == Sgn(sdf(objs, p + EPSILON)[1] - sdf(objs, p - EPSILON)[1])

\* one iteration of the loop of hit_march, or its exit
hit_march ==
    /\ pc = "march"
    /\ IF step < MAX_STEPS
       THEN LET point == point_at(ray, depth)
                field == sdf(march_objs, point)
                distance == field[1]
                material == field[2]
            IN  IF distance <= EPSILON
                THEN /\ march' = CastResult(TRUE, depth, normal(march_objs, point), material)
                     /\ pc' = "trace"
                     /\ UNCHANGED <<step, depth>>
                ELSE IF distance >= MAX_DEPTH
                THEN /\ march' = worst
                     /\ pc' = "trace"
                     /\ UNCHANGED <<step, depth>>
                ELSE /\ depth' = depth + distance
                     /\ step' = step + 1
                     /\ UNCHANGED <<march, pc>>
       ELSE /\ march' = worst
            /\ pc' = "trace"
            /\ UNCHANGED <<step, depth>>
    /\ UNCHANGED <<march_objs, trace_objs, sky, ray, bounce, samples, ti, best,
                   trace, result, ret, stack>>
    /\ UNCHANGED shadeVars

----------------------------------------------------------------------------
(* hit_trace *)

\* replaces with distance >= EPSILON: a hit at EPSILON is let through
replaces_at_epsilon(hit, distance, b) ==
    hit /\ distance >= EPSILON /\ (b.hit = FALSE \/ distance <= b.distance)

\* replaces with distance < best.distance: the earliest of equals is kept
replaces_strictly(hit, distance, b) ==
    hit /\ distance > EPSILON /\ (b.hit = FALSE \/ distance < b.distance)

\* the condition under which a candidate replaces best
replaces(hit, distance, b) ==
    hit /\ distance > EPSILON /\ (b.hit = FALSE \/ distance <= b.distance)

\* one iteration of the loop of hit_trace, or its return
hit_trace ==
    /\ pc = "trace"
    /\ IF ti <= Len(trace_objs)
       THEN LET object == trace_objs[ti]
                t == ObjTrace(object, ray)
            IN  /\ best' = IF replaces(t[1], t[2], best)
                           THEN CastResult(t[1], t[2], t[3], object.mat)
                           ELSE best
                /\ ti' = ti + 1
                /\ UNCHANGED <<trace, pc>>
       ELSE /\ trace' = best
            /\ pc' = "cast"
            /\ UNCHANGED <<best, ti>>
    /\ UNCHANGED <<march_objs, trace_objs, sky, ray, bounce, samples, step,
                   depth, march, result, ret, stack>>
    /\ UNCHANGED shadeVars

----------------------------------------------------------------------------
(* cast_ray *)

\* cast_ray that prefers any trace hit to the march hit
cast_ray_trace_first(m, t) ==
    IF ~m.hit /\ ~t.hit THEN worst
    ELSE IF t.hit THEN t
    ELSE m

\* cast_ray that compares the distances with a tolerance of EPSILON
cast_ray_tolerant(m, t) ==
    IF ~m.hit /\ ~t.hit THEN worst
    ELSE IF (t.hit /\ ~m.hit) \/ t.distance <= m.distance + EPSILON THEN t
    ELSE m

\* the decision of cast_ray between the two solvers' results
cast_ray(m, t) ==
    IF ~m.hit /\ ~t.hit THEN worst
    ELSE IF (t.hit /\ ~m.hit) \/ t.distance <= m.distance THEN t
    ELSE m

\* cast_ray after both solvers have returned
Dispatch ==
    /\ pc = "cast"
    /\ result' = cast_ray(march, trace)
    /\ pc' = "color"
    /\ UNCHANGED <<march_objs, trace_objs, sky, ray, bounce, samples, step,
                   depth, march, ti, best, trace, ret, stack>>
    /\ UNCHANGED shadeVars

----------------------------------------------------------------------------
(* color: one call chain *)

reflect(v, n) == v - 2 * (v * n) * n

\* sample_sphere: the accepted points p have p.length_squared() < 1.0
SphereSamples == { -(Unit - 1), -(Unit \div 2), 0, Unit \div 2, Unit - 1 }

Max(a, b) == IF a >= b THEN a ELSE b

\* the early return without the test of hit
returns_early_spent(hit, b) == b <= 0

\* the early return without the test of bounce
returns_early_miss(hit, b) == ~hit

\* the guard of color's early return
returns_early(hit, b) == ~hit \/ b <= 0

\* the sample counts color passes to its recursive calls
diffuse_samples(s) == 1
mirror_samples(s) == s
rough_samples(s) == Max(s \div 2, 1)

\* the value of the early return
emitted(material) == QMul(material.color, material.emission)

Frame ==
    [bounce |-> bounce, samples |-> samples, ray |-> ray, march |-> march,
     trace |-> trace, result |-> result]

\* the recursive call color(scene, scatter, b, s) is entered
Enter(scatter, b, s) ==
    /\ stack' = Append(stack, Frame)
    /\ ray' = scatter
    /\ bounce' = b
    /\ samples' = s
    /\ pc' = "march"
    /\ step' = 0
    /\ depth' = 0
    /\ ti' = 1
    /\ march' = worst
    /\ best' = worst
    /\ trace' = worst
    /\ result' = worst
    /\ UNCHANGED <<march_objs, trace_objs, sky, ret>>
    /\ UNCHANGED shadeVars

position == point_at(ray, result.distance)

ColorReturn ==
    /\ pc = "color"
    /\ returns_early(result.hit, bounce)
    /\ ret' = emitted(result.material)
    /\ pc' = "done"
    /\ UNCHANGED <<march_objs, trace_objs, sky, ray, bounce, samples, step,
                   depth, march, ti, best, trace, result, stack>>
    /\ UNCHANGED shadeVars

\* a call made by the diffuse loop
ColorDiffuse ==
    /\ pc = "color"
    /\ ~returns_early(result.hit, bounce)
    /\ samples >= 1
    /\ \E s \in SphereSamples :
          Enter(through(position, result.normal * Unit + s),
                bounce - 1, diffuse_samples(samples))

\* the call made for a material of roughness 0.0
ColorMirror ==
    /\ pc = "color"
    /\ ~returns_early(result.hit, bounce)
    /\ result.material.roughness = Zero
    /\ Enter(through(position, reflect(ray.direction, result.normal)),
             bounce - 1, mirror_samples(samples))

\* a call made by the rough specular loop
ColorRough ==
    /\ pc = "color"
    /\ ~returns_early(result.hit, bounce)
    /\ result.material.roughness # Zero
    /\ samples >= 1
    /\ \E s \in SphereSamples :
          LET r == result.material.roughness
          IN  Enter(through(position,
                            reflect(ray.direction, result.normal) * Unit * r[2]
                              + s * r[1]),
                    bounce - 1, rough_samples(samples))

----------------------------------------------------------------------------
(* Spec: a scene, a primary ray and a budget; then one call chain *)

IdleShade ==
    /\ palette = {}
    /\ frames = <<>>
    /\ call = [bounce |-> 0, samples |-> 0]
    /\ retv = Zero
    /\ spc = "idle"

Init ==
    /\ march_objs \in SubSeqs(MarchCatalog, MaxMarch)
    /\ trace_objs \in SubSeqs(TraceCatalog, MaxTrace)
    /\ sky = overcast
    /\ ray \in { Ray(0, d) : d \in {-1, 1} }
    /\ \E c \in Budgets : bounce = c.bounce /\ samples = c.samples
    /\ pc = "march"
    /\ step = 0
    /\ depth = 0
    /\ ti = 1
    /\ march = worst
    /\ best = worst
    /\ trace = worst
    /\ result = worst
    /\ ret = Zero
    /\ stack = <<>>
    /\ IdleShade

Next ==
    \/ hit_march
    \/ hit_trace
    \/ Dispatch
    \/ ColorReturn
    \/ ColorDiffuse
    \/ ColorMirror
    \/ ColorRough

Spec == Init /\ [][Next]_vars

----------------------------------------------------------------------------
(* Properties of the solvers and the dispatcher, under Spec *)

\* the current call has its cast_ray result
Cast == pc \in {"color", "done"}

\* the current call has its hit_trace result
Traced == pc \in {"cast", "color", "done"}

\* the current call has its hit_march result
Marched == pc \in {"trace", "cast", "color", "done"}

SkyRadiance == QMul(sky.color, sky.emission)

\* a march hit has a normal that unit() can make
NormalDefined == (Marched /\ march.hit) => march.normal # 0

\* C1: when neither solver reports a hit, cast_ray reports hit = false and
\* the call of color returns exactly sky.color * sky.emission as its next
\* step, for every bounce budget and sample count, calling nothing.
C1_MissReturnsSky ==
    [][(pc = "color" /\ ~march.hit /\ ~trace.hit)
         => (/\ ~result.hit
             /\ pc' = "done"
             /\ stack' = stack
             /\ ret' = SkyRadiance)]_vars

C1_Witness ==
    /\ pc = "done"
    /\ march_objs = <<>>
    /\ trace_objs = <<>>
    /\ bounce >= 1
    /\ samples >= 1
    /\ ~result.hit
    /\ ret = SkyRadiance

\* C2: cast_ray returns the worst sentinel when both solvers miss, the one
\* hitting result when exactly one hits, and when both hit the trace result
\* if trace.distance <= march.distance and the march result otherwise; the
\* returned hit has the smaller of the hit distances.
C2_Dispatch ==
    Cast =>
      /\ (~march.hit /\ ~trace.hit) => result = worst
      /\ (march.hit /\ ~trace.hit) => result = march
      /\ (~march.hit /\ trace.hit) => result = trace
      /\ (march.hit /\ trace.hit) =>
            result = IF trace.distance <= march.distance THEN trace ELSE march
      /\ result.hit =>
            \A r \in {march, trace} : r.hit => result.distance <= r.distance

C2_Witness ==
    /\ pc = "color"
    /\ march.hit
    /\ ~trace.hit
    /\ trace_objs # <<>>
    /\ result = march

\* C3 as stated: when both solvers hit at distances that differ by at most
\* EPSILON, cast_ray returns the Traceable's result.
C3_TieWithinEpsilon ==
    (Cast /\ march.hit /\ trace.hit
       /\ Abs(trace.distance - march.distance) <= EPSILON)
      => result = trace

\* C3 as amended: when both solvers hit, cast_ray returns the Traceable's
\* result exactly when trace.distance <= march.distance, compared without
\* tolerance: the Marchable's result is returned when the Traceable is
\* farther by any amount, also by less than EPSILON.
C3_ExactTie ==
    (Cast /\ march.hit /\ trace.hit) =>
      /\ trace.distance <= march.distance => result = trace
      /\ trace.distance > march.distance => (result = march /\ result # trace)

C3_Witness ==
    /\ pc = "color"
    /\ march.hit
    /\ trace.hit
    /\ trace.distance > march.distance
    /\ trace.distance - march.distance < EPSILON
    /\ result = march

\* what Traceable i answers for the current ray
Answer(i) == ObjTrace(trace_objs[i], ray)

\* the Traceables that report a hit farther than EPSILON
Valid == { i \in 1..Len(trace_objs) : Answer(i)[1] /\ Answer(i)[2] > EPSILON }

\* the valid Traceables at the least distance
Nearest == { i \in Valid : \A j \in Valid : Answer(i)[2] <= Answer(j)[2] }

GivenBy(i) ==
    /\ trace.distance = Answer(i)[2]
    /\ trace.normal = Answer(i)[3]
    /\ trace.material = trace_objs[i].mat

\* C7: hit_trace returns hit = true iff some Traceable reports a hit with
\* distance > EPSILON; then its distance is the least among those, with the
\* normal and material of an object at that distance; otherwise it returns
\* the worst sentinel.  No distance <= EPSILON is returned.
C7_NearestValid ==
    Traced =>
      /\ trace.hit <=> Valid # {}
      /\ Valid # {} => \E i \in Nearest : GivenBy(i)
      /\ Valid = {} => trace = worst
      /\ trace.hit => trace.distance > EPSILON

C7_Witness ==
    /\ pc = "cast"
    /\ trace.hit
    /\ \E i \in 1..Len(trace_objs) : Answer(i)[1] /\ Answer(i)[2] = EPSILON
    /\ \E i \in Nearest : GivenBy(i)

Least(S) == CHOOSE i \in S : \A j \in S : i <= j
Greatest(S) == CHOOSE i \in S : \A j \in S : i >= j

\* C8 as stated: among Traceables with valid hits at the same least
\* distance, hit_trace returns the normal and material of the earliest.
C8_EarliestWins == (Traced /\ trace.hit) => GivenBy(Least(Nearest))

\* C8 as amended: a candidate replaces the best so far when its distance is
\* less than or equal to it, so among Traceables with valid hits at the same
\* least distance hit_trace returns the normal and material of the latest.
C8_LatestWins == (Traced /\ trace.hit) => GivenBy(Greatest(Nearest))

C8_Witness ==
    /\ pc = "cast"
    /\ trace.hit
    /\ Cardinality(Nearest) = 2
    /\ trace_objs[Least(Nearest)].mat # trace_objs[Greatest(Nearest)].mat
    /\ GivenBy(Greatest(Nearest))

\* the distance of Marchable i at point p
Field(i, p) == ObjMarch(march_objs[i], p)

\* the Marchables at the least distance from p
Closest(p) ==
    { i \in 1..Len(march_objs) :
        \A j \in 1..Len(march_objs) : Field(i, p) <= Field(j, p) }

\* the point hit_march is looking at
Probe == point_at(ray, depth)

\* C9 as stated: at a hit the combined field is the least of the objects'
\* distances, and the material returned is that of the first object at that
\* distance.
C9_FirstClosest ==
    (pc = "trace" /\ march.hit) =>
      /\ sdf(march_objs, Probe)[1] = Field(Least(Closest(Probe)), Probe)
      /\ march.material = march_objs[Least(Closest(Probe))].mat

\* C9 as amended: the combined field is the least of the objects' distances,
\* with the material of the last object in iteration order at that
\* distance; a hit returns that material.
C9_LastClosest ==
    (pc \in {"march", "trace"} /\ march_objs # <<>>) =>
      /\ sdf(march_objs, Probe)[1] = Field(Greatest(Closest(Probe)), Probe)
      /\ sdf(march_objs, Probe)[2] = march_objs[Greatest(Closest(Probe))].mat
      /\ (pc = "trace" /\ march.hit) =>
            march.material = march_objs[Greatest(Closest(Probe))].mat

C9_Witness ==
    /\ pc = "trace"
    /\ march.hit
    /\ Cardinality(Closest(Probe)) = 2
    /\ march_objs[1].mat # march_objs[2].mat
    /\ march.material = march_objs[2].mat

\* C10: at a step of hit_march where the combined distance exceeds EPSILON
\* and the accumulated depth is >= MAX_DEPTH, the solver returns the worst
\* sentinel: it does not advance.
C10_FarPlaneMiss ==
    [][(/\ pc = "march"
        /\ step < MAX_STEPS
        /\ depth >= MAX_DEPTH
        /\ sdf(march_objs, Probe)[1] > EPSILON)
         => (pc' = "trace" /\ march' = worst)]_vars

\* the call that is waiting for the current one
Parent == stack[Len(stack)]

\* the parent's hit was the Marchables'
FromMarchable ==
    /\ stack # <<>>
    /\ Parent.march.hit
    /\ Parent.result = Parent.march
    /\ ~((Parent.trace.hit /\ ~Parent.march.hit)
          \/ Parent.trace.distance <= Parent.march.distance)

\* C5: a ray that color spawns from a hit on a Marchable is not reported by
\* hit_march as hitting that surface at depth 0.
C5_NoSelfHit ==
    (Marched /\ FromMarchable) =>
      ~(/\ march.hit
        /\ march.distance = 0
        /\ march.material = Parent.result.material)

----------------------------------------------------------------------------
(* color: the whole call tree, under SpecShade *)

ShadeMaterials == {matte, polished, bright, mirror, lamp}

\* the sum left as it is, not divided by samples
average_sum(sum, n) == sum

\* diffuse / (samples as f64), specular / (samples as f64)
average(sum, n) == QDivN(sum, n)

\* the value color returns after both terms; transmission is the zero vector
blend(m, diffuse, specular, transmission) ==
    LET dielectric == QAdd(QAdd(QMul(transmission, m.transmission),
                                QMul(diffuse, QSub(One, m.transmission))),
                           QMul(specular, m.specular))
        metallic == QMul(specular, m.color)
        lit == QAdd(QMul(dielectric, QSub(One, m.metallic)),
                    QMul(metallic, m.metallic))
    IN  QAdd(QMul(lit, QMax(QSub(One, m.emission), Zero)),
             QMul(m.color, m.emission))

Top == frames[Len(frames)]

Replace(f) == [frames EXCEPT ![Len(frames)] = f]

Pop == SubSeq(frames, 1, Len(frames) - 1)

Budget(f) == [bounce |-> f.bounce, samples |-> f.samples]

\* what cast_ray can return in the scene: a miss, or a hit on one of the
\* scene's materials
Outcomes == {[hit |-> FALSE, material |-> sky]}
              \cup { [hit |-> TRUE, material |-> m] : m \in palette }

\* color is entered, cast_ray misses or the budget is spent: early return
ShadeEarly ==
    /\ spc = "call"
    /\ \E o \in Outcomes :
          /\ returns_early(o.hit, call.bounce)
          /\ retv' = emitted(o.material)
    /\ spc' = "ret"
    /\ UNCHANGED <<palette, frames, call>>
    /\ UNCHANGED solveVars

\* color is entered and cast_ray hits: the terms start from zero
ShadeHit ==
    /\ spc = "call"
    /\ \E o \in Outcomes :
          /\ ~returns_early(o.hit, call.bounce)
          /\ frames' = Append(frames,
                 [bounce |-> call.bounce, samples |-> call.samples,
                  material |-> o.material, phase |-> "diffuse", i |-> 0,
                  diffuse |-> Zero, specular |-> Zero])
    /\ spc' = "loop"
    /\ UNCHANGED <<palette, call, retv>>
    /\ UNCHANGED solveVars

\* the diffuse loop calls color for its next sample
DiffuseCall ==
    /\ spc = "loop"
    /\ Top.phase = "diffuse"
    /\ Top.i < Top.samples
    /\ call' = [bounce |-> Top.bounce - 1, samples |-> diffuse_samples(Top.samples)]
    /\ spc' = "call"
    /\ UNCHANGED <<palette, frames, retv>>
    /\ UNCHANGED solveVars

\* the diffuse loop adds material.color * sample
DiffuseTake ==
    /\ spc = "ret"
    /\ frames # <<>>
    /\ Top.phase = "diffuse"
    /\ frames' = Replace([Top EXCEPT
                    !.diffuse = QAdd(@, QMul(Top.material.color, retv)),
                    !.i = @ + 1])
    /\ spc' = "loop"
    /\ UNCHANGED <<palette, call, retv>>
    /\ UNCHANGED solveVars

\* the diffuse loop is over: the sum is averaged, and the specular term
\* starts with the mirror call or with the rough loop
DiffuseEnd ==
    /\ spc = "loop"
    /\ Top.phase = "diffuse"
    /\ Top.i >= Top.samples
    /\ IF Top.material.roughness = Zero
       THEN /\ frames' = Replace([Top EXCEPT
                            !.diffuse = average(@, Top.samples),
                            !.phase = "mirror"])
            /\ call' = [bounce |-> Top.bounce - 1,
                        samples |-> mirror_samples(Top.samples)]
            /\ spc' = "call"
       ELSE /\ frames' = Replace([Top EXCEPT
                            !.diffuse = average(@, Top.samples),
                            !.phase = "rough",
                            !.i = 0])
            /\ UNCHANGED <<call, spc>>
    /\ UNCHANGED <<palette, retv>>
    /\ UNCHANGED solveVars

\* the mirror call is back: specular is its value, and color returns
MirrorTake ==
    /\ spc = "ret"
    /\ frames # <<>>
    /\ Top.phase = "mirror"
    /\ retv' = blend(Top.material, Top.diffuse, retv, Zero)
    /\ call' = Budget(Top)
    /\ frames' = Pop
    /\ UNCHANGED <<palette, spc>>
    /\ UNCHANGED solveVars

\* the rough loop calls color for its next sample
RoughCall ==
    /\ spc = "loop"
    /\ Top.phase = "rough"
    /\ Top.i < Top.samples
    /\ call' = [bounce |-> Top.bounce - 1, samples |-> rough_samples(Top.samples)]
    /\ spc' = "call"
    /\ UNCHANGED <<palette, frames, retv>>
    /\ UNCHANGED solveVars

\* the rough loop adds the sample
RoughTake ==
    /\ spc = "ret"
    /\ frames # <<>>
    /\ Top.phase = "rough"
    /\ frames' = Replace([Top EXCEPT !.specular = QAdd(@, retv), !.i = @ + 1])
    /\ spc' = "loop"
    /\ UNCHANGED <<palette, call, retv>>
    /\ UNCHANGED solveVars

\* the rough loop is over: the sum is averaged, and color returns
RoughEnd ==
    /\ spc = "loop"
    /\ Top.phase = "rough"
    /\ Top.i >= Top.samples
    /\ retv' = blend(Top.material, Top.diffuse,
                     average(Top.specular, Top.samples), Zero)
    /\ call' = Budget(Top)
    /\ frames' = Pop
    /\ spc' = "ret"
    /\ UNCHANGED palette
    /\ UNCHANGED solveVars

IdleSolve ==
    /\ march_objs = <<>>
    /\ trace_objs = <<>>
    /\ ray = Ray(0, 1)
    /\ bounce = 0
    /\ samples = 0
    /\ pc = "idle"
    /\ step = 0
    /\ depth = 0
    /\ ti = 1
    /\ march = worst
    /\ best = worst
    /\ trace = worst
    /\ result = worst
    /\ ret = Zero
    /\ stack = <<>>

InitShade ==
    /\ sky \in SkyMaterials
    /\ palette \in { P \in SUBSET ShadeMaterials : Cardinality(P) <= MaxPalette }
    /\ call \in Budgets
    /\ frames = <<>>
    /\ retv = Zero
    /\ spc = "call"
    /\ IdleSolve

NextShade ==
    \/ ShadeEarly
    \/ ShadeHit
    \/ DiffuseCall
    \/ DiffuseTake
    \/ DiffuseEnd
    \/ MirrorTake
    \/ RoughCall
    \/ RoughTake
    \/ RoughEnd

SpecShade == InitShade /\ [][NextShade]_vars

----------------------------------------------------------------------------
(* Properties of the call tree, under SpecShade *)

\* c is the budget of a call that the waiting call f made in its phase
ChildOf(f, c) ==
    /\ c.bounce = f.bounce - 1
    /\ c.bounce >= 0
    /\ c.samples <= f.samples
    /\ f.phase = "diffuse" => c.samples = 1
    /\ f.phase = "mirror" => c.samples = f.samples
    /\ f.phase = "rough" =>
          c.samples = IF f.samples \div 2 >= 1 THEN f.samples \div 2 ELSE 1

\* C4: every recursive call of color has bounce one less than its caller's
\* and a sample count <= its caller's (1 from the diffuse loop, the caller's
\* for the mirror ray, max(S/2, 1) from the rough loop); a call with bounce
\* 0 calls nothing, so bounce - 1 stays >= 0; the calls nest at most B deep.
C4_Budget ==
    /\ \A k \in 1..Len(frames) : frames[k].bounce >= 1
    /\ \A k \in 1..(Len(frames) - 1) : ChildOf(frames[k], Budget(frames[k + 1]))
    /\ (spc = "call" /\ frames # <<>>) => ChildOf(Top, call)
    /\ call.bounce >= 0
    /\ frames # <<>> => Len(frames) <= frames[1].bounce

C4_Witness ==
    /\ spc = "call"
    /\ Len(frames) = 1
    /\ Top.phase = "rough"
    /\ Top.bounce = 1
    /\ Top.samples = 2
    /\ call.bounce = 0
    /\ call.samples = 1

\* specular = 0, emission = 0, metallic = 0, transmission = 0, color >= 0
FullyDiffuse(m) ==
    /\ m.specular = Zero
    /\ m.emission = Zero
    /\ m.metallic = Zero
    /\ m.transmission = Zero
    /\ QLeq(Zero, m.color)

InSkyRange(v) == QLeq(Zero, v) /\ QLeq(v, SkyRadiance)

\* C6 as stated: in a scene of fully diffuse, non-emissive, non-metallic,
\* opaque materials of non-negative color, every call of color with
\* samples >= 1 returns a value in [0, sky radiance].
C6_NoEnergyGain ==
    (spc = "ret" /\ call.samples >= 1 /\ \A m \in palette : FullyDiffuse(m))
      => InSkyRange(retv)

\* C6 as amended: in a scene of fully diffuse, non-emissive, non-metallic,
\* opaque materials whose color lies in [0, 1], every call of color with
\* samples >= 1 returns a value in [0, sky radiance], the arithmetic taken
\* as exact.
C6_NoEnergyGainAlbedo ==
    (/\ spc = "ret"
     /\ call.samples >= 1
     /\ \A m \in palette : FullyDiffuse(m) /\ QLeq(m.color, One))
      => InSkyRange(retv)

C6_Witness ==
    /\ spc = "ret"
    /\ frames = <<>>
    /\ call.bounce = 1
    /\ call.samples = 2
    /\ palette = {matte, polished}
    /\ retv # Zero
    /\ retv # SkyRadiance
    /\ InSkyRange(retv)

====
